---- MODULE Spec2Model ----
(***************************************************************************)
(* Farkle: the scoring rules (public/rules.js) and the server-side match   *)
(* state machine (server.js: class GameState and the socket handlers of    *)
(* one room).                                                              *)
(***************************************************************************)
EXTENDS Integers, Sequences, FiniteSets, TLC

(***************************************************************************)
(* DEFAULT_RULES                                                           *)
(***************************************************************************)
single1 == 100
single5 == 50
triple1 == 1000
triple2 == 200
triple3 == 300
triple4 == 400
triple5 == 500
triple6 == 600
straight == 1500
threePairs == 1500
fourOfAKind == 1000
fiveOfAKind == 2000
sixOfAKind == 3000
sixOnes == 5000
twoTriplets == 2500
fiveStraight == 1200
fourStraight == 500
enableThreePairs == TRUE
enableTwoTriplets == TRUE
enable4Straight == FALSE
enable5Straight == FALSE
\* the threshold checkWinCondition compares a total against
winScore == 10000
\* the number of dice of a fresh roll
SixDice == 6
\* the seats of a room
MaxSeats == 2

Faces == 1..6

(***************************************************************************)
(* rules.js: dice are sequences of face values                             *)
(***************************************************************************)
\* counts[face] || 0
Count(dice, face) == Cardinality({i \in DOMAIN dice : dice[i] = face})

\* Object.keys(counts): the faces present
Present(dice) == {dice[i] : i \in DOMAIN dice}

\* Object.keys(counts).length
Distinct(dice) == Cardinality(Present(dice))

\* Object.values(counts).every(c => c === 2)
EveryCountTwo(dice) == \A f \in Present(dice) : Count(dice, f) = 2

\* the switch on face
TripleValue(face) ==
    CASE face = 1 -> triple1
      [] face = 2 -> triple2
      [] face = 3 -> triple3
      [] face = 4 -> triple4
      [] face = 5 -> triple5
      [] face = 6 -> triple6

\* the body of the per-face loop: what one face adds to score
FaceScore(face, count) ==
    IF count = 0 THEN 0
    ELSE IF count >= 3 THEN
        IF count = 3 THEN TripleValue(face)
        ELSE IF count = 4 THEN
            (IF fourOfAKind # 0 THEN fourOfAKind ELSE TripleValue(face) * 2)
            + (IF face = 1 /\ (1000 + (count - 3) * 100) > fourOfAKind
               THEN TripleValue(face) + (count - 3) * single1
               ELSE IF count = 4 THEN fourOfAKind
               ELSE IF count = 5 THEN fiveOfAKind
               ELSE IF count = 6 THEN sixOfAKind
               ELSE TripleValue(face))
        ELSE 0
    ELSE IF face = 1 THEN count * single1
    ELSE IF face = 5 THEN count * single5
    ELSE 0

RECURSIVE SumFaces(_, _)
\* the loop for (face = 1; face <= 6; face++) from face on
SumFaces(dice, face) ==
    IF face > 6 THEN 0
    ELSE FaceScore(face, Count(dice, face)) + SumFaces(dice, face + 1)

\* 1-5 or 2-6, five dice
IsFiveStraight(dice) ==
    /\ Len(dice) = 5 /\ Distinct(dice) = 5
    /\ \/ Present(dice) = 1..5
       \/ Present(dice) = 2..6

\* 1-4, 2-5 or 3-6, four dice
IsFourStraight(dice) ==
    /\ Len(dice) = 4 /\ Distinct(dice) = 4
    /\ \/ Present(dice) = 1..4
       \/ Present(dice) = 2..5
       \/ Present(dice) = 3..6

\* calculateScore that adds two triplets up face by face
calculateScorePerFaceTriplets(dice) ==
    IF Len(dice) = 0 THEN 0
    ELSE IF Len(dice) = 6 /\ Distinct(dice) = 6 THEN straight
    ELSE IF Count(dice, 1) = 6 THEN sixOnes
    ELSE IF \E i \in 2..6 : Count(dice, i) = 6 THEN sixOfAKind
    ELSE IF enableThreePairs /\ Len(dice) = 6 /\ Distinct(dice) = 3
            /\ EveryCountTwo(dice) THEN threePairs
    ELSE SumFaces(dice, 1)

\* calculateScore that looks for six of a kind of any face before six ones
calculateScoreSixOfAKindFirst(dice) ==
    IF Len(dice) = 0 THEN 0
    ELSE IF Len(dice) = 6 /\ Distinct(dice) = 6 THEN straight
    ELSE IF \E i \in 1..6 : Count(dice, i) = 6 THEN sixOfAKind
    ELSE IF Count(dice, 1) = 6 THEN sixOnes
    ELSE IF enableThreePairs /\ Len(dice) = 6 /\ Distinct(dice) = 3
            /\ EveryCountTwo(dice) THEN threePairs
    ELSE IF enableTwoTriplets /\ Len(dice) = 6 /\ Distinct(dice) = 2
            /\ \A f \in Present(dice) : Count(dice, f) = 3 THEN twoTriplets
    ELSE SumFaces(dice, 1)

\* calculateScore that sees a straight only in dice sorted by face
calculateScoreSorted(dice) ==
    IF Len(dice) = 0 THEN 0
    ELSE IF Len(dice) = 6 /\ \A i \in 1..6 : dice[i] = i THEN straight
    ELSE IF Count(dice, 1) = 6 THEN sixOnes
    ELSE IF \E i \in 2..6 : Count(dice, i) = 6 THEN sixOfAKind
    ELSE IF enableThreePairs /\ Len(dice) = 6 /\ Distinct(dice) = 3
            /\ EveryCountTwo(dice) THEN threePairs
    ELSE IF enableTwoTriplets /\ Len(dice) = 6 /\ Distinct(dice) = 2
            /\ \A f \in Present(dice) : Count(dice, f) = 3 THEN twoTriplets
    ELSE SumFaces(dice, 1)

calculateScore(dice) ==
    IF Len(dice) = 0 THEN 0
    ELSE IF Len(dice) = 6 /\ Distinct(dice) = 6 THEN straight
    ELSE IF Count(dice, 1) = 6 THEN sixOnes
    ELSE IF \E i \in 2..6 : Count(dice, i) = 6 THEN sixOfAKind
    ELSE IF enable5Straight /\ IsFiveStraight(dice) THEN fiveStraight
    ELSE IF enable4Straight /\ IsFourStraight(dice) THEN fourStraight
    ELSE IF enableThreePairs /\ Len(dice) = 6 /\ Distinct(dice) = 3
            /\ EveryCountTwo(dice) THEN threePairs
    ELSE IF enableTwoTriplets /\ Len(dice) = 6 /\ Distinct(dice) = 2
            /\ \A f \in Present(dice) : Count(dice, f) = 3 THEN twoTriplets
    ELSE SumFaces(dice, 1)

\* hasPossibleMoves without the search for three of a kind
hasPossibleMovesOnesAndFives(dice) ==
    IF Len(dice) = 0 THEN FALSE
    ELSE IF Count(dice, 1) > 0 \/ Count(dice, 5) > 0 THEN TRUE
    ELSE IF Distinct(dice) = 6 THEN TRUE
    ELSE IF enableThreePairs /\ Len(dice) = 6 /\ EveryCountTwo(dice) THEN TRUE
    ELSE FALSE

hasPossibleMoves(dice) ==
    IF Len(dice) = 0 THEN FALSE
    ELSE IF Count(dice, 1) > 0 \/ Count(dice, 5) > 0 THEN TRUE
    ELSE IF \E i \in 1..6 : Count(dice, i) >= 3 THEN TRUE
    ELSE IF Distinct(dice) = 6 THEN TRUE
    ELSE IF enableThreePairs /\ Len(dice) = 6 /\ EveryCountTwo(dice) THEN TRUE
    ELSE IF enable5Straight /\ Len(dice) >= 5
            /\ (1..5 \subseteq Present(dice) \/ 2..6 \subseteq Present(dice)) THEN TRUE
    ELSE IF enable4Straight /\ Len(dice) >= 4
            /\ (\/ 1..4 \subseteq Present(dice)
                \/ 2..5 \subseteq Present(dice)
                \/ 3..6 \subseteq Present(dice)) THEN TRUE
    ELSE FALSE

\* isScoringSelection that takes no 2, 3, 4 or 6 outside a six-dice pattern
isScoringSelectionOnesAndFives(dice) ==
    IF calculateScore(dice) = 0 THEN FALSE
    ELSE IF Len(dice) = 6 /\ Distinct(dice) = 6 THEN TRUE
    ELSE IF enableThreePairs /\ Len(dice) = 6 /\ EveryCountTwo(dice) THEN TRUE
    ELSE Present(dice) \subseteq {1, 5}

\* isScoringSelection that accepts whatever scores
isScoringSelectionAnyScore(dice) == calculateScore(dice) # 0

isScoringSelection(dice) ==
    IF calculateScore(dice) = 0 THEN FALSE
    ELSE IF Len(dice) = 6 /\ Distinct(dice) = 6 THEN TRUE
    ELSE IF enableThreePairs /\ Len(dice) = 6 /\ EveryCountTwo(dice) THEN TRUE
    ELSE IF enable5Straight /\ Len(dice) = 5 /\ Distinct(dice) = 5
            /\ (6 \notin Present(dice) \/ 1 \notin Present(dice)) THEN TRUE
    ELSE IF enable4Straight /\ Len(dice) = 4 /\ Distinct(dice) = 4
            /\ (\/ 1..4 \subseteq Present(dice)
                \/ 2..5 \subseteq Present(dice)
                \/ 3..6 \subseteq Present(dice)) THEN TRUE
    ELSE \A face \in 1..6 :
            (Count(dice, face) > 0 /\ face # 1 /\ face # 5) => Count(dice, face) >= 3

(***************************************************************************)
(* Bounds of the model                                                     *)
(***************************************************************************)
\* connections the server accepts over its lifetime (socket ids 1..MaxSockets)
MaxSockets == 3
\* bust timers that may be scheduled and not yet fired
MaxPending == 1
\* Spec: a roll or bank is explored only while the mover's total plus round
\* score stays within MaxScore
MaxScore == 10500
\* SpecTurn: a roll is explored only while the round score stays within
\* MaxRound, a bank only while the new total stays within MaxTurnTotal
MaxRound == 500
MaxTurnTotal == 100

SocketIds == 1..MaxSockets
NoSeat == 0 - 1

(***************************************************************************)
(* State: one room (one GameState), its sockets and its bust timers        *)
(***************************************************************************)
VARIABLES
    players,                \* GameState.players: <<[id, name, score, connected]>>
    currentPlayerIndex,
    roundAccumulatedScore,
    diceCountToRoll,
    currentDice,            \* <<[id, value, selected]>>
    isFinalRound,
    finalRoundTriggeredBy,  \* a seat index, NoSeat for null
    gameStatus,             \* "waiting", "playing", "finished"
    winner,                 \* "null", "seat0", "seat1" (a reference to players[i]), "tie"
    sockets,                \* ids of the connections that are open
    spawned,                \* number of connections accepted so far
    timers,                 \* pending setTimeout callbacks of bust rolls, oldest first
    reply,                  \* what the last handler returned / emitted to its caller
    hand,                   \* face values handed to the functions of the rules module
    scored                  \* what these functions returned for the hand

gameVars == <<players, currentPlayerIndex, roundAccumulatedScore, diceCountToRoll,
              currentDice, isFinalRound, finalRoundTriggeredBy, gameStatus, winner>>
vars == <<players, currentPlayerIndex, roundAccumulatedScore, diceCountToRoll,
          currentDice, isFinalRound, finalRoundTriggeredBy, gameStatus, winner,
          sockets, spawned, timers, reply, hand, scored>>

\* the GameState object as one value
game ==
    [players |-> players,
     currentPlayerIndex |-> currentPlayerIndex,
     roundAccumulatedScore |-> roundAccumulatedScore,
     diceCountToRoll |-> diceCountToRoll,
     currentDice |-> currentDice,
     isFinalRound |-> isFinalRound,
     finalRoundTriggeredBy |-> finalRoundTriggeredBy,
     gameStatus |-> gameStatus,
     winner |-> winner]

\* the fields of the GameState after a handler ran
SetGame(g) ==
    /\ players' = g.players
    /\ currentPlayerIndex' = g.currentPlayerIndex
    /\ roundAccumulatedScore' = g.roundAccumulatedScore
    /\ diceCountToRoll' = g.diceCountToRoll
    /\ currentDice' = g.currentDice
    /\ isFinalRound' = g.isFinalRound
    /\ finalRoundTriggeredBy' = g.finalRoundTriggeredBy
    /\ gameStatus' = g.gameStatus
    /\ winner' = g.winner

\* no call of the rules functions on record
NotScored ==
    [done |-> FALSE, score |-> 0, moves |-> FALSE, accepted |-> FALSE,
     reordered |-> FALSE]

\* new GameState(roomCode), no client connected
NewRoom ==
    /\ players = <<>>
    /\ currentPlayerIndex = 0
    /\ roundAccumulatedScore = 0
    /\ diceCountToRoll = SixDice
    /\ currentDice = <<>>
    /\ isFinalRound = FALSE
    /\ finalRoundTriggeredBy = NoSeat
    /\ gameStatus = "waiting"
    /\ winner = "null"
    /\ sockets = {}
    /\ spawned = 0
    /\ timers = <<>>
    /\ reply = [op |-> "none", by |-> 0, result |-> "undefined",
                farkle |-> FALSE, hotDice |-> FALSE, name |-> "",
                dieId |-> 0]

\* the server after start-up, the rules functions not called yet
Init ==
    /\ NewRoom
    /\ hand = <<>>
    /\ scored = NotScored

(***************************************************************************)
(* class GameState: each method maps the object g to the object after it   *)
(***************************************************************************)
\* players[i] of the code is players[i + 1] here
Seat(g, i) == g.players[i + 1]

\* a slip: the number of dice to roll survives the reset
resetRoundKeepsCount(g) ==
    [g EXCEPT !.roundAccumulatedScore = 0, !.currentDice = <<>>]

\* a slip: the round score survives the reset
resetRoundKeepsScore(g) ==
    [g EXCEPT !.diceCountToRoll = SixDice, !.currentDice = <<>>]

resetRound(g) ==
    [g EXCEPT !.roundAccumulatedScore = 0,
              !.diceCountToRoll = SixDice,
              !.currentDice = <<>>]

\* a slip: the match starts with the second seat to move
startAtSecondSeat(g) ==
    IF Len(g.players) = 2
    THEN resetRound([g EXCEPT !.gameStatus = "playing", !.currentPlayerIndex = 1])
    ELSE g

start(g) ==
    IF Len(g.players) = 2
    THEN resetRound([g EXCEPT !.gameStatus = "playing", !.currentPlayerIndex = 0])
    ELSE g

\* getCurrentPlayer().id
CurrentId(g) == Seat(g, g.currentPlayerIndex).id

\* a slip: the end of the match takes the final-round flag down
endGameClearsFlag(g) ==
    [g EXCEPT !.gameStatus = "finished",
              !.isFinalRound = FALSE,
              !.winner = IF Seat(g, 0).score > Seat(g, 1).score THEN "seat0"
                         ELSE IF Seat(g, 1).score > Seat(g, 0).score THEN "seat1"
                         ELSE "tie"]

endGame(g) ==
    [g EXCEPT !.gameStatus = "finished",
              !.winner = IF Seat(g, 0).score > Seat(g, 1).score THEN "seat0"
                         ELSE IF Seat(g, 1).score > Seat(g, 0).score THEN "seat1"
                         ELSE "tie"]

\* a slip: the final-round check is missing
nextTurnPlaysOn(g) == resetRound([g EXCEPT !.currentPlayerIndex = (@ + 1) % 2])

nextTurn(g) ==
    LET g1 == resetRound([g EXCEPT !.currentPlayerIndex = (@ + 1) % 2])
    IN  IF g1.isFinalRound /\ g1.currentPlayerIndex = g1.finalRoundTriggeredBy
        THEN endGame(g1)
        ELSE g1

\* a slip: the final round is recorded against the seat about to move
checkWinConditionNextSeat(g) ==
    IF Seat(g, g.currentPlayerIndex).score >= winScore /\ ~g.isFinalRound
    THEN [g EXCEPT !.isFinalRound = TRUE,
                   !.finalRoundTriggeredBy = (g.currentPlayerIndex + 1) % 2]
    ELSE g

checkWinCondition(g) ==
    IF Seat(g, g.currentPlayerIndex).score >= winScore /\ ~g.isFinalRound
    THEN [g EXCEPT !.isFinalRound = TRUE,
                   !.finalRoundTriggeredBy = g.currentPlayerIndex]
    ELSE g

\* a slip: the round is discarded and the seat stays
farkleKeepsSeat(g) == resetRound([g EXCEPT !.roundAccumulatedScore = 0])

\* a slip: the round score is credited to the mover before the turn passes
farkleCreditsRound(g) ==
    nextTurn([g EXCEPT !.players[g.currentPlayerIndex + 1].score =
                           @ + g.roundAccumulatedScore,
                       !.roundAccumulatedScore = 0])

farkle(g) == nextTurn([g EXCEPT !.roundAccumulatedScore = 0])

\* currentDice.filter(d => d.selected).map(d => d.value)
RECURSIVE SelectedValues(_)
SelectedValues(dice) ==
    IF dice = <<>> THEN <<>>
    ELSE IF Head(dice).selected
         THEN <<Head(dice).value>> \o SelectedValues(Tail(dice))
         ELSE SelectedValues(Tail(dice))

\* the replies of the handlers
\* the server itself (a timer callback) in the place of a socket id
Server == 0

\* the replies of the handlers: the event, the socket it came from, what the
\* method returned or the handler emitted as 'error', and the flags of a roll
Reply(op, by, result) ==
    [op |-> op, by |-> by, result |-> result, farkle |-> FALSE, hotDice |-> FALSE,
     name |-> "", dieId |-> 0]

\* a slip: the turn check is missing
rollErrorAnyCaller(g, playerId) ==
    IF g.gameStatus # "playing" THEN "Game not active"
    ELSE IF Len(g.currentDice) > 0 /\ Len(SelectedValues(g.currentDice)) = 0
         THEN "Must select dice to re-roll"
    ELSE IF Len(g.currentDice) > 0 /\ ~isScoringSelection(SelectedValues(g.currentDice))
         THEN "Invalid selection"
    ELSE "none"

\* roll(): the error it returns to playerId, "none" when it goes on to roll
rollError(g, playerId) ==
    IF g.gameStatus # "playing" THEN "Game not active"
    ELSE IF CurrentId(g) # playerId THEN "Not your turn"
    ELSE IF Len(g.currentDice) > 0 /\ Len(SelectedValues(g.currentDice)) = 0
         THEN "Must select dice to re-roll"
    ELSE IF Len(g.currentDice) > 0 /\ ~isScoringSelection(SelectedValues(g.currentDice))
         THEN "Invalid selection"
    ELSE "none"

\* roll(): scoreFromSelection
scoreFromSelection(g) ==
    IF Len(g.currentDice) > 0 THEN calculateScore(SelectedValues(g.currentDice)) ELSE 0

\* a slip: no refill when every die was selected
rollCountNoRefill(g) ==
    IF Len(g.currentDice) > 0
    THEN Len(g.currentDice) - Len(SelectedValues(g.currentDice))
    ELSE SixDice

\* roll(): diceCountToRoll as recomputed before the dice are thrown
rollCount(g) ==
    IF Len(g.currentDice) > 0
    THEN LET remaining == Len(g.currentDice) - Len(SelectedValues(g.currentDice))
         IN  IF remaining = 0 THEN SixDice ELSE remaining
    ELSE SixDice

\* the ids of a roll differ from the ids of the roll it replaces
FreshBase(g) ==
    IF g.currentDice = <<>> THEN 0
    ELSE IF g.currentDice[1].id <= SixDice THEN SixDice ELSE 0

\* roll(): newDice, for the faces Math.random() produced
newDice(g, faces) ==
    [i \in 1..Len(faces) |->
        [id |-> FreshBase(g) + i, value |-> faces[i], selected |-> FALSE]]

\* a slip: the dice held back stay on the table next to the new ones
rollGameKeepsHeld(g, faces) ==
    [g EXCEPT !.roundAccumulatedScore = @ + scoreFromSelection(g),
              !.diceCountToRoll = rollCount(g),
              !.currentDice = newDice(g, faces) \o
                              SelectSeq(g.currentDice, LAMBDA d : d.selected)]

\* roll() past its checks: the object after the roll of faces
rollGame(g, faces) ==
    [g EXCEPT !.roundAccumulatedScore = @ + scoreFromSelection(g),
              !.diceCountToRoll = rollCount(g),
              !.currentDice = newDice(g, faces)]

\* roll(): the flags of the result object
rollFarkle(faces) == ~hasPossibleMoves(faces)
\* a slip: the flag is raised by any scoring selection
rollHotDiceAnyScore(g) == scoreFromSelection(g) > 0

rollHotDice(g) == scoreFromSelection(g) > 0 /\ rollCount(g) = SixDice

\* toggleSelection()
\* a slip: the click lands on the first die, whatever id it carries
toggleSelectionFirstDie(g, playerId, dieId) ==
    IF g.gameStatus # "playing" THEN g
    ELSE IF CurrentId(g) # playerId THEN g
    ELSE IF \E i \in DOMAIN g.currentDice : g.currentDice[i].id = dieId
         THEN [g EXCEPT !.currentDice[1].selected = ~@]
         ELSE g

toggleSelection(g, playerId, dieId) ==
    IF g.gameStatus # "playing" THEN g
    ELSE IF CurrentId(g) # playerId THEN g
    ELSE IF \E i \in DOMAIN g.currentDice : g.currentDice[i].id = dieId
         THEN LET i == CHOOSE j \in DOMAIN g.currentDice :
                          /\ g.currentDice[j].id = dieId
                          /\ \A k \in 1..(j - 1) : g.currentDice[k].id # dieId
              IN  [g EXCEPT !.currentDice[i].selected = ~@]
         ELSE g

\* a slip: banking without a selection is refused whatever the round score
bankResultMustSelect(g, playerId) ==
    IF g.gameStatus # "playing" THEN "undefined"
    ELSE IF CurrentId(g) # playerId THEN "undefined"
    ELSE IF Len(SelectedValues(g.currentDice)) > 0
         THEN IF isScoringSelection(SelectedValues(g.currentDice))
              THEN "success" ELSE "Invalid selection"
    ELSE IF Len(g.currentDice) > 0
         THEN "Cannot bank 0"
    ELSE "success"

\* bank(): what it returns to playerId
bankResult(g, playerId) ==
    IF g.gameStatus # "playing" THEN "undefined"
    ELSE IF CurrentId(g) # playerId THEN "undefined"
    ELSE IF Len(SelectedValues(g.currentDice)) > 0
         THEN IF isScoringSelection(SelectedValues(g.currentDice))
              THEN "success" ELSE "Invalid selection"
    ELSE IF Len(g.currentDice) > 0 /\ g.roundAccumulatedScore = 0
         THEN "Cannot bank 0"
    ELSE "success"

\* a slip: the score of the selected dice is not added to the round score
bankGameCarriedOnly(g) ==
    LET g2 == [g EXCEPT !.players[g.currentPlayerIndex + 1].score =
                              @ + g.roundAccumulatedScore]
        g3 == checkWinCondition(g2)
    IN  IF g3.gameStatus # "finished" THEN nextTurn(g3) ELSE g3

\* bank() past its checks
bankGame(g) ==
    LET scoreToAdd == IF Len(SelectedValues(g.currentDice)) > 0
                      THEN calculateScore(SelectedValues(g.currentDice)) ELSE 0
        g1 == [g EXCEPT !.roundAccumulatedScore = @ + scoreToAdd]
        g2 == [g1 EXCEPT !.players[g1.currentPlayerIndex + 1].score =
                              @ + g1.roundAccumulatedScore]
        g3 == checkWinCondition(g2)
    IN  IF g3.gameStatus # "finished" THEN nextTurn(g3) ELSE g3

\* a slip: the selection is scored into the round before it is validated
bankScoresFirst(g, playerId) ==
    IF bankResult(g, playerId) = "success" THEN bankGame(g)
    ELSE IF bankResult(g, playerId) = "Invalid selection"
    THEN [g EXCEPT !.roundAccumulatedScore =
                       @ + calculateScore(SelectedValues(g.currentDice))]
    ELSE g

bank(g, playerId) ==
    IF bankResult(g, playerId) = "success" THEN bankGame(g) ELSE g

\* socket.on('restart')
\* a slip: the status check is missing
restartAnyStatus(g) ==
    LET g1 == [g EXCEPT !.gameStatus = "playing",
                        !.players = [i \in DOMAIN g.players |->
                                        [g.players[i] EXCEPT !.score = 0]],
                        !.currentPlayerIndex = 0]
    IN  [resetRound(g1) EXCEPT !.isFinalRound = FALSE, !.winner = "null"]

restart(g) ==
    IF g.gameStatus = "finished"
    THEN LET g1 == [g EXCEPT !.gameStatus = "playing",
                             !.players = [i \in DOMAIN g.players |->
                                             [g.players[i] EXCEPT !.score = 0]],
                             !.currentPlayerIndex = 0]
         IN  [resetRound(g1) EXCEPT !.isFinalRound = FALSE, !.winner = "null"]
    ELSE g

(***************************************************************************)
(* The lobby handlers of the room                                          *)
(***************************************************************************)
\* Array.prototype.find: the first index of a non-empty set of indices
First(S) == CHOOSE i \in S : \A j \in S : i <= j

\* addPlayer()
addPlayer(g, id, name) ==
    IF Len(g.players) >= MaxSeats THEN g
    ELSE [g EXCEPT !.players =
              Append(@, [id |-> id, name |-> name, score |-> 0, connected |-> TRUE])]

\* socket.on('join_game'): the error it emits, "none" when the socket is seated
joinError(g, name) ==
    LET named == {i \in DOMAIN g.players : g.players[i].name = name}
        disconnected == {i \in DOMAIN g.players : ~g.players[i].connected}
    IN  IF Len(g.players) >= 2 /\ named = {} /\ disconnected = {}
        THEN "Room Full" ELSE "none"

\* a slip: a join by name marks the seat connected and keeps its identity
joinGameKeepsIdentity(g, id, name) ==
    LET named == {i \in DOMAIN g.players : g.players[i].name = name}
        disconnected == {i \in DOMAIN g.players : ~g.players[i].connected}
        takeover == named = {} /\ Len(g.players) >= 2 /\ disconnected # {}
        g2 == IF named # {}
              THEN [g EXCEPT !.players[First(named)].connected = TRUE]
              ELSE IF takeover
              THEN [g EXCEPT !.players[First(disconnected)] =
                        [id |-> id, name |-> name, score |-> 0, connected |-> TRUE]]
              ELSE addPlayer(g, id, name)
    IN  IF Len(g2.players) = 2 /\ g2.gameStatus = "waiting" THEN start(g2) ELSE g2

\* socket.on('join_game') past the Room Full check
joinGame(g, id, name) ==
    LET named == {i \in DOMAIN g.players : g.players[i].name = name}
        disconnected == {i \in DOMAIN g.players : ~g.players[i].connected}
        takeover == named = {} /\ Len(g.players) >= 2 /\ disconnected # {}
        g1 == IF takeover
              THEN [g EXCEPT !.players[First(disconnected)] =
                        [id |-> id, name |-> name, score |-> 0, connected |-> TRUE]]
              ELSE g
        g2 == IF named # {}
              THEN [g1 EXCEPT !.players[First(named)].id = id,
                              !.players[First(named)].connected = TRUE]
              ELSE IF takeover
              THEN g1
              ELSE addPlayer(g1, id, name)
    IN  IF Len(g2.players) = 2 /\ g2.gameStatus = "waiting" THEN start(g2) ELSE g2

\* players.filter(pl => pl.id !== id)
RECURSIVE Without(_, _)
Without(ps, id) ==
    IF ps = <<>> THEN <<>>
    ELSE IF Head(ps).id = id THEN Without(Tail(ps), id)
    ELSE <<Head(ps)>> \o Without(Tail(ps), id)

\* a slip: a player leaving a running match puts the room back to waiting
leaveGameReopens(g, id) ==
    LET mine == {i \in DOMAIN g.players : g.players[i].id = id}
    IN  IF mine = {} THEN g
        ELSE LET g1 == [g EXCEPT !.players[First(mine)].connected = FALSE]
             IN  IF g1.gameStatus = "waiting"
                 THEN [g1 EXCEPT !.players = Without(@, id)]
                 ELSE [g1 EXCEPT !.gameStatus = "waiting"]

\* a slip: a player leaving is removed whatever the status
leaveGameAlwaysRemoves(g, id) ==
    LET mine == {i \in DOMAIN g.players : g.players[i].id = id}
    IN  IF mine = {} THEN g
        ELSE [g EXCEPT !.players = Without(@, id)]

\* socket.on('leave_game') and socket.on('disconnect'), for this room
leaveGame(g, id) ==
    LET mine == {i \in DOMAIN g.players : g.players[i].id = id}
    IN  IF mine = {} THEN g
        ELSE LET g1 == [g EXCEPT !.players[First(mine)].connected = FALSE]
             IN  IF g1.gameStatus = "waiting"
                 THEN [g1 EXCEPT !.players = Without(@, id)]
                 ELSE g1

(***************************************************************************)
(* Events: one action per handler                                          *)
(***************************************************************************)
\* every turn advance, restart or new roll ends the roll a pending timer was set for
Stale(ts) == [i \in DOMAIN ts |-> [ts[i] EXCEPT !.live = FALSE]]

\* io.on('connection')
Connect ==
    /\ spawned < MaxSockets
    /\ spawned' = spawned + 1
    /\ sockets' = sockets \cup {spawned + 1}
    /\ reply' = Reply("connection", spawned + 1, "success")
    /\ UNCHANGED <<gameVars, timers, hand, scored>>

JoinGame(s, name) ==
    /\ s \in sockets
    /\ IF joinError(game, name) # "none"
       THEN /\ reply' = [Reply("join_game", s, joinError(game, name)) EXCEPT
                            !.name = name]
            /\ UNCHANGED gameVars
       ELSE /\ reply' = [Reply("join_game", s, "success") EXCEPT !.name = name]
            /\ SetGame(joinGame(game, s, name))
    /\ UNCHANGED <<sockets, spawned, timers, hand, scored>>

LeaveGame(s) ==
    /\ s \in sockets
    /\ SetGame(leaveGame(game, s))
    /\ reply' = Reply("leave_game", s, "undefined")
    /\ UNCHANGED <<sockets, spawned, timers, hand, scored>>

Disconnect(s) ==
    /\ s \in sockets
    /\ SetGame(leaveGame(game, s))
    /\ sockets' = sockets \ {s}
    /\ reply' = Reply("disconnect", s, "undefined")
    /\ UNCHANGED <<spawned, timers, hand, scored>>

\* socket.on('roll'), the dice falling as faces
Roll(s, faces) ==
    /\ s \in sockets
    /\ IF rollError(game, s) # "none"
       THEN /\ reply' = Reply("roll", s, rollError(game, s))
            /\ UNCHANGED <<gameVars, timers>>
       ELSE /\ Len(faces) = rollCount(game)
            /\ rollFarkle(faces) => Len(timers) < MaxPending
            /\ SetGame(rollGame(game, faces))
            /\ reply' = [Reply("roll", s, "success") EXCEPT
                            !.farkle = rollFarkle(faces),
                            !.hotDice = rollHotDice(game)]
            /\ timers' = IF rollFarkle(faces)
                         THEN Append(Stale(timers),
                                     [seat |-> currentPlayerIndex, live |-> TRUE])
                         ELSE Stale(timers)
    /\ UNCHANGED <<sockets, spawned, hand, scored>>

\* socket.on('toggle_die')
ToggleDie(s, dieId) ==
    /\ s \in sockets
    /\ SetGame(toggleSelection(game, s, dieId))
    /\ reply' = [Reply("toggle_die", s, "undefined") EXCEPT !.dieId = dieId]
    /\ UNCHANGED <<sockets, spawned, timers, hand, scored>>

\* socket.on('bank')
Bank(s) ==
    /\ s \in sockets
    /\ SetGame(bank(game, s))
    /\ reply' = Reply("bank", s, bankResult(game, s))
    /\ timers' = IF bankResult(game, s) = "success" THEN Stale(timers) ELSE timers
    /\ UNCHANGED <<sockets, spawned, hand, scored>>

\* socket.on('restart')
Restart(s) ==
    /\ s \in sockets
    /\ SetGame(restart(game))
    /\ reply' = Reply("restart", s, IF gameStatus = "finished" THEN "success" ELSE "undefined")
    /\ timers' = IF gameStatus = "finished" THEN Stale(timers) ELSE timers
    /\ UNCHANGED <<sockets, spawned, hand, scored>>

\* the setTimeout callback of a bust roll, 2000 ms after it
BustTimer ==
    /\ timers # <<>>
    /\ SetGame(farkle(game))
    /\ timers' = Stale(Tail(timers))
    /\ reply' = Reply("farkle", Server, "success")
    /\ UNCHANGED <<sockets, spawned, hand, scored>>

(***************************************************************************)
(* What the clients send and how the dice fall                             *)
(***************************************************************************)
\* each client joins under its own name
NameOf(s) == IF s = 1 THEN "ann" ELSE IF s = 2 THEN "bob" ELSE "cy"

\* the clients take their seats one after the other while the room is waiting
Seating(s) == gameStatus = "waiting" /\ s = Len(players) + 1

\* no more clients connect than the room has seats
SeatsLeft == spawned < MaxSeats

\* ids a toggle_die event may carry: the dice on the table and one that is not
DieIds == {currentDice[i].id : i \in DOMAIN currentDice} \cup {0}

\* a request the server will act on
AcceptedRoll(s) == rollError(game, s) = "none"
AcceptedBank(s) == bankResult(game, s) = "success"
AcceptedToggle(s, dieId) ==
    /\ gameStatus = "playing" /\ CurrentId(game) = s
    /\ \E i \in DOMAIN currentDice : currentDice[i].id = dieId

\* the mover picks dice from the left and puts them back from the right
InOrder(dieId) ==
    \E i \in DOMAIN currentDice :
        /\ currentDice[i].id = dieId
        /\ \A j \in 1..(i - 1) : currentDice[j].selected
        /\ \A k \in (i + 1)..Len(currentDice) : ~currentDice[k].selected

\* the mover's total once the selection and the round score are banked
TotalAtStake ==
    Seat(game, currentPlayerIndex).score + roundAccumulatedScore
        + calculateScore(SelectedValues(currentDice))

\* Spec: three pairs (every die scores, hot dice) and a bust
MatchOutcomes == {<<>>, <<2, 2, 3, 3, 4, 4>>, <<2, 3, 4, 6, 6, 3>>}

\* SpecTurn: rolls of every size, with and without a scoring die
\* (the loop of roll() throws no dice when diceCountToRoll is 0)
TurnOutcomes ==
    {<<>>,
     <<1, 1, 2, 2, 2, 3>>,
     <<5, 2, 3, 4, 6>>, <<2, 3, 4, 6, 6>>,
     <<1, 3, 4, 6>>, <<2, 3, 4, 6>>,
     <<2, 2, 2>>, <<2, 3, 4>>,
     <<5, 5>>, <<2, 3>>,
     <<1>>, <<2>>}

(***************************************************************************)
(* Spec: a match from the first connection to the winner and the restart.  *)
(* Requests the server rejects are left out here (SpecTurn has them).      *)
(***************************************************************************)
Next ==
    \/ SeatsLeft /\ Connect
    \/ \E s \in SocketIds : Seating(s) /\ JoinGame(s, NameOf(s))
    \/ \E s \in SocketIds : \E faces \in MatchOutcomes :
          AcceptedRoll(s) /\ TotalAtStake <= MaxScore /\ Roll(s, faces)
    \/ \E s \in SocketIds : \E dieId \in DieIds :
          AcceptedToggle(s, dieId) /\ InOrder(dieId) /\ ToggleDie(s, dieId)
    \/ \E s \in SocketIds :
          AcceptedBank(s) /\ TotalAtStake <= MaxScore /\ Bank(s)
    \/ \E s \in SocketIds : gameStatus = "finished" /\ Restart(s)
    \/ BustTimer

Spec == Init /\ [][Next]_vars

(***************************************************************************)
(* SpecTurn: the turns of two seated clients, every request included       *)
(***************************************************************************)
\* a client that is not the mover clicks the first die, if there is one
LeadIds == IF currentDice = <<>> THEN {0} ELSE {Head(currentDice).id}

NextTurn ==
    \/ SeatsLeft /\ Connect
    \/ \E s \in SocketIds : Seating(s) /\ JoinGame(s, NameOf(s))
    \/ \E s \in SocketIds : \E faces \in TurnOutcomes :
          /\ IF AcceptedRoll(s)
             THEN roundAccumulatedScore + scoreFromSelection(game) <= MaxRound
             ELSE faces = <<1>>
          /\ Roll(s, faces)
    \/ \E s \in SocketIds : \E dieId \in DieIds :
          /\ (gameStatus = "playing" /\ CurrentId(game) = s) \/ dieId \in LeadIds
          /\ ToggleDie(s, dieId)
    \/ \E s \in SocketIds :
          /\ AcceptedBank(s) => TotalAtStake <= MaxTurnTotal
          /\ Bank(s)
    \/ \E s \in SocketIds : Restart(s)
    \/ BustTimer

SpecTurn == Init /\ [][NextTurn]_vars

(***************************************************************************)
(* The match while clients leave, disconnect and take seats over           *)
(***************************************************************************)
\* a client that holds no seat, or whose seat is marked disconnected
Away(s) == \A i \in DOMAIN players : players[i].id = s => ~players[i].connected

\* a new client has a seat to go for: a free one, or a disconnected one
Vacancy ==
    \/ Len(players) < MaxSeats
    \/ \E i \in DOMAIN players : ~players[i].connected

\* clients leave while no dice are on the table
BetweenTurns == currentDice = <<>>

\* the players of these matches bank only what brings them to winScore
GoingOut == TotalAtStake >= winScore

\* rolls of these matches: every die selected before, and six ones
SeatsOutcomes == {<<>>, <<1, 1, 1, 1, 1, 1>>}

\* the first clients are the two players; a later one is a newcomer or gives
\* the name of a seated player
JoinNames(s) ==
    IF s <= MaxSeats THEN {NameOf(s)}
    ELSE {NameOf(s)} \cup {players[i].name : i \in DOMAIN players}

NextSeats ==
    \/ Vacancy /\ Connect
    \/ \E s \in SocketIds : \E name \in JoinNames(s) : Away(s) /\ JoinGame(s, name)
    \/ \E s \in SocketIds : ~Away(s) /\ BetweenTurns /\ LeaveGame(s)
    \/ \E s \in SocketIds : ~Away(s) /\ BetweenTurns /\ Disconnect(s)
    \/ \E s \in SocketIds : \E faces \in SeatsOutcomes :
          AcceptedRoll(s) /\ TotalAtStake <= MaxScore /\ Roll(s, faces)
    \/ \E s \in SocketIds : \E dieId \in DieIds :
          AcceptedToggle(s, dieId) /\ InOrder(dieId) /\ ToggleDie(s, dieId)
    \/ \E s \in SocketIds :
          AcceptedBank(s) /\ GoingOut /\ TotalAtStake <= MaxScore /\ Bank(s)
    \/ \E s \in SocketIds : gameStatus = "finished" /\ Restart(s)

SpecSeats == Init /\ [][NextSeats]_vars

(***************************************************************************)
(* The functions of the rules module on every hand of up to six dice       *)
(***************************************************************************)
\* every sequence of at most six face values
Hands == UNION {[1..n -> Faces] : n \in 0..SixDice}

RECURSIVE Keep(_, _, _)
\* dice.filter((d, i) => S.has(i)), from position i on
Keep(dice, S, i) ==
    IF i > Len(dice) THEN <<>>
    ELSE (IF i \in S THEN <<dice[i]>> ELSE <<>>) \o Keep(dice, S, i + 1)

\* the non-empty sub-selections of a hand
SubSelections(dice) == {Keep(dice, S, 1) : S \in (SUBSET DOMAIN dice) \ {{}}}

\* the hand without the die at position i
Drop(dice, i) == Keep(dice, DOMAIN dice \ {i}, 1)

\* the hand with the dice at positions i and i + 1 exchanged
Swap(dice, i) ==
    [k \in DOMAIN dice |->
        IF k = i THEN dice[i + 1] ELSE IF k = i + 1 THEN dice[i] ELSE dice[k]]

InitScore ==
    /\ NewRoom
    /\ hand \in Hands
    /\ scored = NotScored

\* calculateScore, hasPossibleMoves and isScoringSelection called on the hand
Score ==
    /\ ~scored.done
    /\ scored' = [done |-> TRUE,
                  score |-> calculateScore(hand),
                  moves |-> hasPossibleMoves(hand),
                  accepted |-> isScoringSelection(hand),
                  reordered |-> FALSE]
    /\ UNCHANGED <<gameVars, sockets, spawned, timers, reply, hand>>

\* the scored dice are put in another order
Reorder(i) ==
    /\ scored.done
    /\ i < Len(hand)
    /\ hand[i] # hand[i + 1]
    /\ hand' = Swap(hand, i)
    /\ scored' = [scored EXCEPT !.reordered = TRUE]
    /\ UNCHANGED <<gameVars, sockets, spawned, timers, reply>>

NextScore ==
    \/ Score
    \/ \E i \in 1..SixDice : Reorder(i)

SpecScore == InitScore /\ [][NextScore]_vars

(***************************************************************************)
(* Claims                                                                  *)
(***************************************************************************)
\* a bust roll of the turn in progress still waits for its timer
BustPending == \E i \in DOMAIN timers : timers[i].live

\* C1: once a bank has triggered the final round, the match becomes finished
\* exactly when the other seat's following turn ends, by that seat's own bank
\* or by the resolution of that seat's own bust roll; it does not finish
\* earlier, and the triggering seat is not the mover again.
C1_FinalRoundEndsWithOtherTurn ==
    [][/\ (gameStatus = "playing" /\ gameStatus' = "finished") =>
            /\ isFinalRound
            /\ currentPlayerIndex # finalRoundTriggeredBy
            /\ \/ reply'.op = "bank" /\ reply'.by = CurrentId(game)
               \/ /\ reply'.op = "farkle"
                  /\ Head(timers).live
                  /\ Head(timers).seat = currentPlayerIndex
       /\ (/\ isFinalRound /\ gameStatus = "playing"
           /\ currentPlayerIndex' # currentPlayerIndex) => gameStatus' = "finished"
       /\ (isFinalRound' /\ gameStatus' = "playing") =>
             currentPlayerIndex' # finalRoundTriggeredBy'
      ]_vars

\* C2: a successful bank that brings the banker's total to winScore or more
\* while isFinalRound is false leaves isFinalRound true, finalRoundTriggeredBy
\* the banking seat, the other seat to move and the match still playing.
C2_BankTriggersFinalRound ==
    [][(/\ reply'.op = "bank" /\ reply'.result = "success"
        /\ ~isFinalRound
        /\ players'[currentPlayerIndex + 1].score >= winScore) =>
            /\ isFinalRound'
            /\ finalRoundTriggeredBy' = currentPlayerIndex
            /\ currentPlayerIndex' = 1 - currentPlayerIndex
            /\ gameStatus' = "playing"
      ]_vars

\* C2 witness: the state right after the bank that triggered the final round
C2_FinalRoundJustTriggered ==
    /\ reply.op = "bank" /\ reply.result = "success"
    /\ isFinalRound /\ gameStatus = "playing"
    /\ currentPlayerIndex # finalRoundTriggeredBy
    /\ Seat(game, finalRoundTriggeredBy).score >= winScore

\* C3: after a roll with farkle = true the round score of that turn is
\* discarded: while the bust waits for its resolution, and when it is resolved,
\* no total changes.
C3_BustDiscardsRound ==
    [][BustPending =>
          \A i \in DOMAIN players : players'[i].score = players[i].score]_vars

\* C4: in every state with gameStatus "finished", winner is the seat whose
\* total is strictly higher, or the marker "tie" when the two totals are equal.
C4_WinnerHasHigherTotal ==
    gameStatus = "finished" =>
        winner = IF Seat(game, 0).score > Seat(game, 1).score THEN "seat0"
                 ELSE IF Seat(game, 1).score > Seat(game, 0).score THEN "seat1"
                 ELSE "tie"

\* C5: a roll or bank that does not succeed leaves every field of the match
\* as it was.
C5_ErrorLeavesStateUnchanged ==
    [][(reply'.op \in {"roll", "bank"} /\ reply'.result # "success") =>
          UNCHANGED gameVars]_vars

\* C5 witness: a bank of a selection that is not a scoring selection, made
\* with points on the table, was refused
C5_RefusedWithPointsAtStake ==
    /\ reply.op = "bank" /\ reply.result = "Invalid selection"
    /\ calculateScore(SelectedValues(currentDice)) > 0

\* C6: roll answers "Game not active" unless the match is playing, else "Not
\* your turn" unless the caller is the mover, else with dice on the table
\* "Must select dice to re-roll" when none is selected and "Invalid selection"
\* when the selected dice are no scoring selection; otherwise it succeeds.
C6_RollErrors ==
    [][reply'.op = "roll" =>
          reply'.result =
             IF gameStatus # "playing" THEN "Game not active"
             ELSE IF CurrentId(game) # reply'.by THEN "Not your turn"
             ELSE IF currentDice # <<>> /\ SelectedValues(currentDice) = <<>>
                  THEN "Must select dice to re-roll"
             ELSE IF currentDice # <<>>
                     /\ ~isScoringSelection(SelectedValues(currentDice))
                  THEN "Invalid selection"
             ELSE "success"]_vars

\* C6 witness: the mover's roll was refused for its selection
C6_RollRefusedForSelection ==
    /\ reply.op = "roll" /\ reply.result = "Invalid selection"
    /\ gameStatus = "playing" /\ reply.by = CurrentId(game)

\* C7: bank called while the match is not playing answers the error "Game
\* not active", and called by another than the mover answers "Not your turn".
C7_BankPreconditionErrors ==
    [][reply'.op = "bank" =>
          /\ gameStatus # "playing" => reply'.result = "Game not active"
          /\ (gameStatus = "playing" /\ CurrentId(game) # reply'.by) =>
                reply'.result = "Not your turn"]_vars

\* C8: a bank by the mover with dice on the table and none selected answers
\* "Cannot bank 0" when the round score is 0, and otherwise succeeds and adds
\* exactly the round score to the mover's total.
C8_BankWithoutSelection ==
    [][(/\ reply'.op = "bank"
        /\ gameStatus = "playing" /\ CurrentId(game) = reply'.by
        /\ currentDice # <<>> /\ SelectedValues(currentDice) = <<>>) =>
            IF roundAccumulatedScore = 0
            THEN reply'.result = "Cannot bank 0" /\ UNCHANGED gameVars
            ELSE /\ reply'.result = "success"
                 /\ players'[currentPlayerIndex + 1].score =
                       players[currentPlayerIndex + 1].score + roundAccumulatedScore
      ]_vars

\* C8 witness: a carried round score was banked with the dice of a bust roll
\* on the table (none of them can have been part of a scoring selection)
C8_CarriedScoreBanked ==
    /\ reply.op = "bank" /\ reply.result = "success"
    /\ timers # <<>> /\ ~Head(timers).live
    /\ Seat(game, 1 - currentPlayerIndex).score > 0

\* C9: a successful bank adds the round score plus the score of the selected
\* dice to the mover's total and changes nothing else of either player; after
\* it the other seat is to move, the round score is 0, diceCountToRoll is 6
\* and no dice are on the table.
C9_BankEffect ==
    [][(reply'.op = "bank" /\ reply'.result = "success") =>
          /\ players'[currentPlayerIndex + 1] =
                [players[currentPlayerIndex + 1] EXCEPT !.score =
                    @ + roundAccumulatedScore
                      + calculateScore(SelectedValues(currentDice))]
          /\ players'[2 - currentPlayerIndex] = players[2 - currentPlayerIndex]
          /\ currentPlayerIndex' = 1 - currentPlayerIndex
          /\ roundAccumulatedScore' = 0
          /\ diceCountToRoll' = SixDice
          /\ currentDice' = <<>>
      ]_vars

\* C9 witness: a bank has added a carried round score and a selection at once
C9_BankedCarriedAndSelected ==
    /\ reply.op = "bank" /\ reply.result = "success"
    /\ Seat(game, 1 - currentPlayerIndex).score = threePairs + threePairs
    /\ Seat(game, currentPlayerIndex).score = 0
    /\ currentDice = <<>>

\* C10: diceCountToRoll is always an integer from 1 to 6.
C10_DiceCountInRange == diceCountToRoll \in 1..SixDice

\* C10 witness: a single die was left to roll, and was rolled
C10_OneDieRolled == diceCountToRoll = 1 /\ Len(currentDice) = 1

\* C11: a successful re-roll (dice on the table, a valid selection of m of the
\* n dice) adds the score of the selection to roundAccumulatedScore, rolls
\* n - m dice when m < n and 6 dice when m = n, and its hotDice flag is true
\* exactly when m = n.
C11_ReRoll ==
    [][(reply'.op = "roll" /\ reply'.result = "success" /\ currentDice # <<>>) =>
          LET n == Len(currentDice)
              m == Len(SelectedValues(currentDice))
          IN  /\ roundAccumulatedScore' =
                    roundAccumulatedScore + calculateScore(SelectedValues(currentDice))
              /\ Len(currentDice') = IF m < n THEN n - m ELSE SixDice
              /\ diceCountToRoll' = Len(currentDice')
              /\ reply'.hotDice = (m = n)
      ]_vars

\* C11 witness: a re-roll after every die was selected kept the round score
\* and put six dice on the table
C11_HotDiceRolled ==
    /\ reply.op = "roll" /\ reply.result = "success" /\ reply.hotDice
    /\ roundAccumulatedScore > 0
    /\ Len(currentDice) = SixDice

\* C12: roundAccumulatedScore is 0 after every change of currentPlayerIndex,
\* after start and after restart, and it does not decrease in any other step.
C12_RoundScoreResets ==
    [][/\ (\/ currentPlayerIndex' # currentPlayerIndex
           \/ gameStatus # "playing" /\ gameStatus' = "playing") =>
             roundAccumulatedScore' = 0
       /\ ~(\/ currentPlayerIndex' # currentPlayerIndex
            \/ gameStatus # "playing" /\ gameStatus' = "playing") =>
             roundAccumulatedScore' >= roundAccumulatedScore
      ]_vars

\* C12 witness: a bust was resolved and the next turn starts with round score 0
C12_TurnStartedAfterBust ==
    /\ reply.op = "farkle" /\ gameStatus = "playing"
    /\ roundAccumulatedScore = 0 /\ currentDice = <<>>

\* C13: isFinalRound goes from true to false only in a restart, and from false
\* to true only in a successful bank after which the banker's total is at
\* least winScore.
C13_FinalRoundSetOnce ==
    [][/\ (isFinalRound /\ ~isFinalRound') =>
             reply'.op = "restart" /\ gameStatus = "finished"
       /\ (~isFinalRound /\ isFinalRound') =>
             /\ reply'.op = "bank" /\ reply'.result = "success"
             /\ players'[currentPlayerIndex + 1].score >= winScore
      ]_vars

\* C13 witness: the match has ended with the flag still up
C13_FinishedInFinalRound == gameStatus = "finished" /\ isFinalRound

\* C14: gameStatus changes only from waiting to playing when a join fills the
\* second seat, from playing to finished when a turn advance returns to the
\* seat that triggered the final round, and from finished to playing by a
\* restart.
C14_StatusTransitions ==
    [][gameStatus' # gameStatus =>
          \/ /\ gameStatus = "waiting" /\ gameStatus' = "playing"
             /\ reply'.op = "join_game"
             /\ Len(players) = 1 /\ Len(players') = 2
          \/ /\ gameStatus = "playing" /\ gameStatus' = "finished"
             /\ isFinalRound
             /\ currentPlayerIndex' # currentPlayerIndex
             /\ currentPlayerIndex' = finalRoundTriggeredBy
          \/ /\ gameStatus = "finished" /\ gameStatus' = "playing"
             /\ reply'.op = "restart"
      ]_vars

\* C14 witness: a finished match was restarted
C14_Restarted ==
    /\ reply.op = "restart" /\ reply.result = "success"
    /\ gameStatus = "playing" /\ finalRoundTriggeredBy # NoSeat

\* C15: whenever gameStatus is "playing", exactly two players are seated and
\* currentPlayerIndex is 0 or 1.
C15_TwoSeatedOneCurrent ==
    gameStatus = "playing" =>
        /\ Len(players) = 2
        /\ currentPlayerIndex \in {0, 1}

\* C15 witness: the match is running with the second seat to move and a seated
\* player gone
C15_PlayingWithPlayerGone ==
    /\ gameStatus = "playing" /\ currentPlayerIndex = 1
    /\ \E i \in DOMAIN players : ~players[i].connected

\* C16: a restart in status "finished" leaves both totals 0, the first seat
\* to move, round score 0, diceCountToRoll 6, no dice on the table, the
\* final-round flag false, the final-round trigger seat cleared, winner unset
\* and gameStatus "playing".
C16_RestartResets ==
    [][(reply'.op = "restart" /\ gameStatus = "finished") =>
          /\ \A i \in DOMAIN players' : players'[i].score = 0
          /\ currentPlayerIndex' = 0
          /\ roundAccumulatedScore' = 0
          /\ diceCountToRoll' = SixDice
          /\ currentDice' = <<>>
          /\ ~isFinalRound'
          /\ finalRoundTriggeredBy' = NoSeat
          /\ winner' = "null"
          /\ gameStatus' = "playing"
      ]_vars

\* C17: a restart request in status "waiting" or "playing" is not carried out
\* and changes no field of the match.
C17_RestartRefused ==
    [][(reply'.op = "restart" /\ gameStatus \in {"waiting", "playing"}) =>
          /\ reply'.result # "success"
          /\ UNCHANGED gameVars
      ]_vars

\* C17 witness: a restart was asked for in the middle of a turn
C17_RestartAskedMidTurn ==
    /\ reply.op = "restart" /\ reply.result # "success"
    /\ gameStatus = "playing"
    /\ roundAccumulatedScore > 0 /\ currentDice # <<>>

\* C18: a join that fills the second seat while gameStatus is "waiting" leaves
\* the match playing with the first seat to move, round score 0,
\* diceCountToRoll 6, no dice on the table and both totals 0.
C18_AutoStart ==
    [][(/\ reply'.op = "join_game" /\ gameStatus = "waiting"
        /\ Len(players) = 1 /\ Len(players') = 2) =>
          /\ gameStatus' = "playing"
          /\ currentPlayerIndex' = 0
          /\ roundAccumulatedScore' = 0
          /\ diceCountToRoll' = SixDice
          /\ currentDice' = <<>>
          /\ \A i \in DOMAIN players' : players'[i].score = 0
      ]_vars

\* C18 witness: the second player has just taken the second seat
C18_SecondSeatJustFilled ==
    /\ reply.op = "join_game" /\ reply.result = "success"
    /\ gameStatus = "playing" /\ Len(players) = 2
    /\ players[2].id = reply.by /\ players[2].name = reply.name
    /\ finalRoundTriggeredBy = NoSeat
    /\ currentDice = <<>>
    /\ \A i \in DOMAIN players : players[i].score = 0 /\ players[i].connected

\* C19: a join under a name that neither seated player has, made while both
\* seats are occupied, fails with "Room Full" and leaves both seats as they
\* were.
C19_RoomFull ==
    [][(/\ reply'.op = "join_game" /\ Len(players) = 2
        /\ \A i \in DOMAIN players : players[i].name # reply'.name) =>
          /\ reply'.result = "Room Full"
          /\ players' = players
      ]_vars

\* C20: a join under the name of a seated player gives that seat the identity
\* of the joining connection and marks it connected, and changes nothing else
\* of the match.
C20_JoinByName ==
    [][(/\ reply'.op = "join_game"
        /\ \E i \in DOMAIN players : players[i].name = reply'.name) =>
          LET i == First({j \in DOMAIN players : players[j].name = reply'.name})
          IN  /\ players' = [players EXCEPT ![i].id = reply'.by,
                                            ![i].connected = TRUE]
              /\ UNCHANGED <<currentPlayerIndex, roundAccumulatedScore,
                             diceCountToRoll, currentDice, isFinalRound,
                             finalRoundTriggeredBy, gameStatus, winner>>
      ]_vars

\* C20 witness: a later connection has taken the seat of a player with points
\* by giving that player's name
C20_SeatReclaimed ==
    /\ reply.op = "join_game" /\ reply.result = "success"
    /\ reply.by > MaxSeats
    /\ \E i \in DOMAIN players :
          /\ players[i].name = reply.name /\ players[i].id = reply.by
          /\ players[i].name = NameOf(i)
          /\ players[i].score > 0

\* C21: toggleSelection changes nothing unless gameStatus is "playing" and the
\* caller is the mover; then it flips the selected flag of exactly the die
\* whose id matches and leaves every other die and field as it was, and it
\* changes nothing when no die has that id.
C21_ToggleFlipsOneDie ==
    [][reply'.op = "toggle_die" =>
          LET hit == {i \in DOMAIN currentDice : currentDice[i].id = reply'.dieId}
          IN  IF gameStatus = "playing" /\ CurrentId(game) = reply'.by /\ hit # {}
              THEN /\ currentDice' =
                         [currentDice EXCEPT ![First(hit)].selected = ~@]
                   /\ UNCHANGED <<players, currentPlayerIndex,
                                  roundAccumulatedScore, diceCountToRoll,
                                  isFinalRound, finalRoundTriggeredBy,
                                  gameStatus, winner>>
              ELSE UNCHANGED gameVars
      ]_vars

\* C21 witness: the mover has put a selected die back while another stays
\* selected
C21_DieDeselected ==
    /\ reply.op = "toggle_die" /\ gameStatus = "playing"
    /\ reply.by = CurrentId(game)
    /\ \E i, j \in DOMAIN currentDice :
          /\ currentDice[i].id = reply.dieId /\ ~currentDice[i].selected
          /\ i < j /\ currentDice[j].selected

\* C22: for every roll of 1 to 6 dice hasPossibleMoves is true if and only if
\* some non-empty sub-selection of the dice has calculateScore greater than 0;
\* it is false for [2,3,4,6,6,3].
C22_MovesIffSubSelectionScores ==
    (scored.done /\ hand # <<>>) =>
        /\ scored.moves <=> \E sub \in SubSelections(hand) : calculateScore(sub) > 0
        /\ hand = <<2, 3, 4, 6, 6, 3>> => ~scored.moves

\* C22 witness: the bust roll of the claim was examined
C22_BustExamined ==
    scored.done /\ ~scored.reordered /\ hand = <<2, 3, 4, 6, 6, 3>> /\ ~scored.moves

\* C23: for every selection of 1 to 6 dice isScoringSelection is true if and
\* only if calculateScore is above 0 and either the selection is a whole-set
\* pattern (six-dice straight, three pairs, two triplets) or every face 2, 3,
\* 4 or 6 present in it occurs at least three times; [1,2,2,2] is accepted,
\* [2,2] and [3] are rejected.
C23_AcceptedIffNoWastedDie ==
    (scored.done /\ hand # <<>>) =>
        /\ scored.accepted <=>
              /\ scored.score > 0
              /\ \/ /\ Len(hand) = 6
                    /\ \/ \A f \in Faces : Count(hand, f) = 1
                       \/ \A f \in Faces : Count(hand, f) \in {0, 2}
                       \/ \A f \in Faces : Count(hand, f) \in {0, 3}
                 \/ \A f \in {2, 3, 4, 6} : Count(hand, f) = 0 \/ Count(hand, f) >= 3
        /\ hand = <<1, 2, 2, 2>> => scored.accepted
        /\ hand \in {<<2, 2>>, <<3>>} => ~scored.accepted

\* C23 witness: a selection that scores and is refused for a wasted die
C23_ScoresButRefused ==
    scored.done /\ ~scored.reordered /\ hand = <<1, 2, 2>> /\ scored.score > 0
    /\ ~scored.accepted

\* C24: for every selection that isScoringSelection accepts, removing any
\* single die gives a strictly lower calculateScore.
C24_EveryDieCounts ==
    (scored.done /\ scored.accepted) =>
        \A i \in DOMAIN hand : calculateScore(Drop(hand, i)) < scored.score

\* C25: calculateScore gives the same value for a sequence of up to six dice
\* and for every reordering of it.
C25_OrderIrrelevant ==
    scored.done => calculateScore(hand) = scored.score

\* C25 witness: a straight scored in ascending order and then shuffled
C25_StraightShuffled ==
    /\ scored.done /\ scored.reordered /\ scored.score = straight
    /\ hand = <<6, 5, 4, 3, 2, 1>>

\* C26: calculateScore([1,2,3,4,5,6]) = 1500, calculateScore([1,1,1,1,1,1]) =
\* 5000, calculateScore([2,2,2]) = 200, calculateScore([2,2]) = 0,
\* calculateScore([1,5]) = 150 and calculateScore([]) = 0.
C26_WorkedExamples ==
    scored.done =>
        /\ hand = <<1, 2, 3, 4, 5, 6>> => scored.score = 1500
        /\ hand = <<1, 1, 1, 1, 1, 1>> => scored.score = 5000
        /\ hand = <<2, 2, 2>> => scored.score = 200
        /\ hand = <<2, 2>> => scored.score = 0
        /\ hand = <<1, 5>> => scored.score = 150
        /\ hand = <<>> => scored.score = 0

\* C26 witness: six ones were scored
C26_SixOnesScored ==
    scored.done /\ hand = <<1, 1, 1, 1, 1, 1>> /\ scored.score = 5000

\* C27: a selection of exactly four 1s scores the larger of the four-of-a-kind
\* value and the triple-1s value plus one single 1, which is 1100.
C27_FourOnes ==
    (scored.done /\ hand = <<1, 1, 1, 1>>) =>
        /\ scored.score = (IF fourOfAKind >= triple1 + single1
                            THEN fourOfAKind ELSE triple1 + single1)
        /\ scored.score = 1100

\* C28: for every face f other than 1 exactly four dice of face f score
\* fourOfAKind (1000), and for every face f exactly five dice of face f score
\* fiveOfAKind (2000).
C28_FourAndFiveOfAKind ==
    scored.done =>
        \A f \in Faces :
            /\ (f # 1 /\ hand = <<f, f, f, f>>) =>
                  scored.score = fourOfAKind /\ scored.score = 1000
            /\ hand = <<f, f, f, f, f>> =>
                  scored.score = fiveOfAKind /\ scored.score = 2000

\* C29: six dice of six distinct faces score 1500, six 1s score 5000, six of
\* any other single face score 3000, three faces each exactly twice score
\* 1500 and two faces each exactly three times score 2500, whatever the
\* per-face accumulation would give.
C29_SixDicePatterns ==
    (scored.done /\ Len(hand) = 6) =>
        /\ (\A f \in Faces : Count(hand, f) = 1) => scored.score = 1500
        /\ Count(hand, 1) = 6 => scored.score = 5000
        /\ (\E f \in Faces \ {1} : Count(hand, f) = 6) => scored.score = 3000
        /\ (\A f \in Faces : Count(hand, f) \in {0, 2}) => scored.score = 1500
        /\ (\A f \in Faces : Count(hand, f) \in {0, 3}) => scored.score = 2500

\* C29 witness: two triplets whose faces add up to 500 one by one
C29_TwoTripletsScored ==
    scored.done /\ hand = <<2, 3, 2, 3, 2, 3>> /\ scored.score = twoTriplets

\* C30: whatever events arrive between a bust roll and its deferred
\* resolution, every execution of the resolution runs while the match is
\* being played, the current seat is still the seat that rolled the bust and
\* the dice on the table are still the busted roll.
C30_BustResolvedInPlace ==
    [][reply'.op = "farkle" =>
          /\ gameStatus = "playing"
          /\ Head(timers).seat = currentPlayerIndex
          /\ Head(timers).live
          /\ currentDice # <<>>
          /\ ~hasPossibleMoves([i \in DOMAIN currentDice |-> currentDice[i].value])
      ]_vars

\* C31: a roll that returns farkle = true does not itself end the turn:
\* right after it the current seat, both totals and the status are as before
\* the roll and the round score holds the points accumulated so far; from
\* then on the seat changes only when farkle() is invoked.
C31_BustRollKeepsTurn ==
    [][/\ (reply'.op = "roll" /\ reply'.farkle) =>
             /\ currentPlayerIndex' = currentPlayerIndex
             /\ gameStatus' = gameStatus
             /\ \A i \in DOMAIN players : players'[i].score = players[i].score
             /\ roundAccumulatedScore' =
                   roundAccumulatedScore + scoreFromSelection(game)
       /\ (BustPending /\ currentPlayerIndex' # currentPlayerIndex) =>
             reply'.op = "farkle"
      ]_vars

\* C32: farkle() changes neither player's total: it sets the round score to
\* 0, empties the dice, sets diceCountToRoll to 6 and flips the current seat
\* to the other seat; it finishes the match only if that seat is the
\* final-round trigger seat.
C32_FarkleEffect ==
    [][reply'.op = "farkle" =>
          /\ \A i \in DOMAIN players : players'[i].score = players[i].score
          /\ roundAccumulatedScore' = 0
          /\ currentDice' = <<>>
          /\ diceCountToRoll' = 6
          /\ currentPlayerIndex' = 1 - currentPlayerIndex
          /\ gameStatus' \in {gameStatus, "finished"}
          /\ (gameStatus' # gameStatus) =>
                isFinalRound /\ currentPlayerIndex' = finalRoundTriggeredBy
      ]_vars

\* C32 witness: a bust resolution has discarded a carried round score of the
\* other seat's last turn and finished the match
C32_BustEndedMatch ==
    /\ reply.op = "farkle" /\ gameStatus = "finished"
    /\ currentPlayerIndex = finalRoundTriggeredBy
    /\ roundAccumulatedScore = 0 /\ currentDice = <<>> /\ diceCountToRoll = 6

\* the event loop runs every callback whose 2000 ms delay has elapsed
SpecFair == Spec /\ WF_vars(BustTimer)

\* C33: every roll that returns farkle = true is eventually followed by a
\* turn advance: with the timer scheduled fairly farkle() runs for that roll
\* and the busting player's turn ends, so the match is never left stuck on
\* the busting player.
C33_BustEventuallyResolved ==
    /\ (reply.op = "roll" /\ reply.farkle) ~> (reply.op = "farkle")
    /\ \A k \in {0, 1} :
          (reply.op = "roll" /\ reply.farkle /\ currentPlayerIndex = k)
             ~> (currentPlayerIndex # k \/ gameStatus # "playing")

\* C33 witness: the timer of a first-roll bust has fired and none is pending
C33_BustResolved ==
    /\ reply.op = "farkle" /\ timers = <<>> /\ gameStatus = "playing"
    /\ \A i \in DOMAIN players : players[i].score = 0

\* C34: while gameStatus is 'finished', no roll, bank, toggle_die event and no
\* pending deferred bust resolution changes any field of the match; only a
\* restart changes the game state.
C34_FinishedIsFrozen ==
    [][(gameStatus = "finished"
           /\ reply'.op \in {"roll", "bank", "toggle_die", "farkle"}) =>
          UNCHANGED gameVars
      ]_vars

\* C35: the current player is never stuck with dice they cannot act on: when
\* the dice on the table come from a roll that returned farkle = false, at
\* least one non-empty set of those dice, when selected, is accepted by
\* isScoringSelection, and after a roll that returned farkle = true no set of
\* the dice is accepted.  The flag of a roll is the negation of
\* hasPossibleMoves on the rolled faces, and a roll puts 1 to 6 dice on the
\* table.
C35_MovesIffSomeSetAccepted ==
    (scored.done /\ hand # <<>>) =>
        (scored.moves <=> \E sub \in SubSelections(hand) : isScoringSelection(sub))

\* C35 witness: five of a kind, refused as a whole, holds a set that is accepted
C35_FiveOfAKindPlayable ==
    /\ scored.done /\ hand = <<2, 2, 2, 2, 2>>
    /\ scored.moves /\ ~scored.accepted

\* C36: bank called by the current player before any roll of the turn (no
\* dice on the table, round score 0) returns success, leaves both totals
\* unchanged and advances the turn to the other seat; in the final round this
\* pass ends the match.
C36_BankBeforeRoll ==
    [][(/\ reply'.op = "bank" /\ gameStatus = "playing"
        /\ reply'.by = CurrentId(game)
        /\ currentDice = <<>> /\ roundAccumulatedScore = 0) =>
          /\ reply'.result = "success"
          /\ \A i \in DOMAIN players : players'[i].score = players[i].score
          /\ currentPlayerIndex' = 1 - currentPlayerIndex
          /\ isFinalRound => gameStatus' = "finished"
      ]_vars

\* C36 witness: the other seat, with nothing banked, passed its final-round
\* turn without rolling and the match ended
C36_FinalTurnPassed ==
    /\ reply.op = "bank" /\ reply.result = "success"
    /\ gameStatus = "finished" /\ timers = <<>>
    /\ currentPlayerIndex = finalRoundTriggeredBy
    /\ Seat(game, 1 - currentPlayerIndex).score = 0

\* C37: in every reachable state, when dice are on the table their number
\* equals diceCountToRoll, and when no dice are on the table diceCountToRoll
\* is 6 and roundAccumulatedScore is 0.
C37_TableMatchesCount ==
    IF currentDice # <<>>
    THEN Len(currentDice) = diceCountToRoll
    ELSE diceCountToRoll = 6 /\ roundAccumulatedScore = 0

\* C37 witness: three dice are on the table in a turn that carries points
C37_ThreeDiceOnTable ==
    /\ gameStatus = "playing" /\ roundAccumulatedScore > 0
    /\ Len(currentDice) = 3 /\ diceCountToRoll = 3

====
